---- MODULE Spec2Model ----
(***************************************************************************)
(* Model of script.py: the batch converter (HEIC/CR2 -> PNG) and the       *)
(* PNG -> size-capped JPEG optimizer.                                      *)
(*                                                                         *)
(* One behaviour of Spec is one call of process_conversion or of           *)
(* process_optimization: the main thread builds the task list, submits     *)
(* every task to a ThreadPoolExecutor, consumes the futures in completion  *)
(* order and prints the summary, while up to max_workers worker threads    *)
(* run the transforms.                                                     *)
(*                                                                         *)
(* SpecOpt follows one call of optimize_png pass by pass, SpecPath one      *)
(* application of the path mapping, SpecEnum the enumeration of the files  *)
(* and the building of the task list, SpecMain the thread-selection        *)
(* dialogue of the main block.                                             *)
(*                                                                         *)
(* Sizes are whole numbers of size units.  In the program a size is        *)
(* bytes / 2^20, a multiple of 2^-20, so the float sum of sizes is exact   *)
(* and integer addition models it.                                         *)
(***************************************************************************)
EXTENDS Integers, Sequences, FiniteSets, TLC

VARIABLES
    func,                  \* the transform handed to the pool
    max_workers,           \* ThreadPoolExecutor(max_workers=...)
    max_size_mb,           \* size cap of process_optimization
    files,                 \* the enumerated files (paths relative to input_dir)
    pc,                    \* position of the main thread
    tasks,                 \* the task list built by the enumeration loop
    dirs,                  \* directories created by out.parent.mkdir
    fut,                   \* one future per submitted task
    invoked,               \* per task: how often its transform was called
    counted,               \* per task: how often its result was consumed
    success, fail,         \* the counters of the aggregation loop
    total_optimized_size,  \* sum of the sizes of the successful optimizations
    pbar,                  \* the progress bar's count (pbar.n)
    postfix,               \* the progress bar's postfix (pbar.set_postfix_str)
    start,                 \* start = time.time()
    now,                   \* the value the last time.time() returned
    printed,               \* the outcome lines printed so far
    call,                  \* one call of optimize_png, followed step by step
    pm,                    \* one application of the path mapping
    en,                    \* the enumerator: the tree and the searches done
    sel                    \* the thread-selection dialogue of the main block

poolVars == <<func, max_workers, files, pc, tasks, dirs, fut,
              invoked, counted, success, fail, total_optimized_size, pbar,
              postfix, start, now, printed>>

vars == <<poolVars, max_size_mb, call, pm, en, sel>>

----------------------------------------------------------------------------
(* Bounds of the model *)

MaxTasks == 3
MaxSizeMb == 2

(* Program constants *)

StartQuality == 90
QualityFloor == 30
QualityStep == 5
max_dimension == 4000

WorkerOptions == {2, 4, 8}
Sizes == 1..(MaxSizeMb + 1)
SizeCaps == 1..MaxSizeMb

Funcs == {"convert_heic_to_png", "convert_cr2_to_png", "optimize_png"}
IsOptimization == func = "optimize_png"

----------------------------------------------------------------------------
(* Results of a transform call, as the future stores them *)

(* raised: the call raised instead of returning; ok, size: the value it   *)
(* returned; floor: it returned from a pass of the size-search loop whose  *)
(* quality was below the floor (kept for the claims, not a program value)  *)
Returned(ok, size) ==
    [raised |-> FALSE, ok |-> ok, size |-> size, floor |-> FALSE]
Raised == [raised |-> TRUE, ok |-> FALSE, size |-> 0, floor |-> FALSE]
NoResult == [raised |-> FALSE, ok |-> FALSE, size |-> 0, floor |-> FALSE]

convert_heic_to_png_Unguarded(exc) ==
    IF exc THEN Raised ELSE Returned(TRUE, 0)

(* convert_heic_to_png: exc says whether Image.open / img.save raised *)
convert_heic_to_png(exc) ==
    IF exc THEN Returned(FALSE, 0) ELSE Returned(TRUE, 0)

(* convert_cr2_to_png: exc says whether WandImage(...) / img.save raised *)
convert_cr2_to_png(exc) ==
    IF exc THEN Returned(FALSE, 0) ELSE Returned(TRUE, 0)

----------------------------------------------------------------------------
(* The futures *)

NewFuture == [st |-> "new", res |-> NoResult]

N == Len(files)
TaskIds == 1..N
Running == {t \in TaskIds : fut[t].st = "running"}
Pending == {t \in TaskIds : fut[t].st = "pending"}
Finished == {t \in TaskIds : fut[t].st = "finished"}
Submitted == {t \in TaskIds : fut[t].st # "new"}

(* The work queue of the executor is FIFO: the oldest pending item is next *)
QueueHead == CHOOSE t \in Pending : \A u \in Pending : t <= u

(* A worker thread is free to take a work item *)
WorkerFree == Cardinality(Running) < max_workers

Completed_YieldsAgain == {t \in TaskIds : fut[t].st = "finished"}

Completed_InOrder ==
    {t \in TaskIds : /\ fut[t].st = "finished"
                     /\ counted[t] = 0
                     /\ \A u \in 1..(t - 1) : counted[u] > 0}

(* as_completed: the finished futures not yet yielded *)
Completed == {t \in TaskIds : fut[t].st = "finished" /\ counted[t] = 0}

(* as_completed is exhausted once every future of the dict was yielded *)
AsCompletedExhausted == \A t \in TaskIds : counted[t] > 0

(* The executor's __exit__: shutdown(wait=True) returns when no work is left *)
ShutdownDone == \A t \in TaskIds : fut[t].st = "finished"

----------------------------------------------------------------------------
(* IEEE-754 double arithmetic, as far as optimize_png's resize needs it.   *)
(* A positive double is [m, e]: m its 53 mantissa bits, most significant   *)
(* first (m[1] = 1), and the value is m (read as a binary number) * 2^e.   *)

MantissaBits == 53

(* 2^i mod d, by repeated squaring; d < 2^15 keeps every product an int   *)
RECURSIVE Pow2Mod(_, _)
Pow2Mod(i, d) ==
    IF i = 0 THEN 1 % d
    ELSE IF i % 2 = 0
         THEN LET half == Pow2Mod(i \div 2, d) IN (half * half) % d
         ELSE (2 * Pow2Mod(i - 1, d)) % d

(* The remainder of the long division r/d after i bits of the quotient    *)
DivRem(r, d, i) == (r * Pow2Mod(i, d)) % d

(* The first k bits after the binary point of r/d, for 0 <= r < d *)
DivBits(r, d, k) ==
    [i \in 1..k |-> IF 2 * DivRem(r, d, i - 1) >= d THEN 1 ELSE 0]

(* Number of zero bits before the first one bit of r/d, for 0 < r < d *)
RECURSIVE LeadingZeros(_, _)
LeadingZeros(r, d) ==
    IF 2 * r >= d THEN 0 ELSE 1 + LeadingZeros(2 * r, d)

(* bits + 1, most significant bit first, for bits that are not all ones   *)
Increment(bits) ==
    LET n == Len(bits)
        j == CHOOSE i \in 1..n : bits[i] = 0 /\ \A k \in (i + 1)..n : bits[k] = 1
    IN  [i \in 1..n |-> IF i < j THEN bits[i] ELSE IF i = j THEN 1 ELSE 0]

AllOnes(bits) == \A i \in 1..Len(bits) : bits[i] = 1

(* Round to nearest, ties to even: bits holds at least 53 bits, the first  *)
(* one set, and stands for bits * 2^e; sticky says that non-zero bits      *)
(* follow beyond bits                                                      *)
RoundToDouble(bits, sticky, e) ==
    LET n == Len(bits)
        keep == SubSeq(bits, 1, MantissaBits)
        rest == SubSeq(bits, MantissaBits + 1, n)
        half == n > MantissaBits /\ rest[1] = 1
        below == sticky \/ \E i \in 2..Len(rest) : rest[i] = 1
        up == half /\ (below \/ keep[MantissaBits] = 1)
        e2 == e + (n - MantissaBits)
    IN  IF ~up THEN [m |-> keep, e |-> e2]
        ELSE IF AllOnes(keep)
             THEN [m |-> <<1>> \o [i \in 1..(MantissaBits - 1) |-> 0], e |-> e2 + 1]
             ELSE [m |-> Increment(keep), e |-> e2]

(* a / b for ints 0 < a < b < 2^15: Python's int true division is         *)
(* correctly rounded                                                       *)
TrueDiv(a, b) ==
    LET z == LeadingZeros(a, b)
        k == z + MantissaBits + 1
        all == DivBits(a, b, k)
    IN  RoundToDouble(SubSeq(all, z + 1, k), DivRem(a, b, k) # 0, -k)

(* The number a bit sequence of at most 30 bits stands for *)
RECURSIVE BitsToInt(_)
BitsToInt(bits) ==
    IF bits = <<>> THEN 0
    ELSE 2 * BitsToInt(SubSeq(bits, 1, Len(bits) - 1)) + bits[Len(bits)]

(* The n low bits of v, most significant first *)
IntToBits(v, n) == [i \in 1..n |-> (v \div 2^(n - i)) % 2]

(* Number of bits of v >= 1 *)
BitLen(v) == CHOOSE n \in 1..31 : 2^(n - 1) <= v /\ (n = 31 \/ v < 2^n)

(* The mantissa m times the int h, 1 <= h < 2^15, as a bit sequence without *)
(* leading zeros: m is cut into limbs of 15 bits (the top one has 8), each  *)
(* is multiplied by h and the carries are passed upward                     *)
MulMantissa(m, h) ==
    LET B == 2^15
        l0 == BitsToInt(SubSeq(m, MantissaBits - 15 + 1, MantissaBits))
        l1 == BitsToInt(SubSeq(m, MantissaBits - 30 + 1, MantissaBits - 15))
        l2 == BitsToInt(SubSeq(m, MantissaBits - 45 + 1, MantissaBits - 30))
        l3 == BitsToInt(SubSeq(m, 1, MantissaBits - 45))
        p0 == h * l0
        p1 == h * l1 + p0 \div B
        p2 == h * l2 + p1 \div B
        p3 == h * l3 + p2 \div B
    IN  IntToBits(p3, BitLen(p3)) \o IntToBits(p2 % B, 15)
        \o IntToBits(p1 % B, 15) \o IntToBits(p0 % B, 15)

(* h * x for an int 1 <= h < 2^15 (exactly a double) and a double x: the   *)
(* exact product, rounded once                                             *)
MulInt(h, x) == RoundToDouble(MulMantissa(x.m, h), FALSE, x.e)

(* int(x) for a double 0 < x < 2^53: truncation toward zero *)
IntOf(x) ==
    IF MantissaBits + x.e <= 0 THEN 0
    ELSE BitsToInt(SubSeq(x.m, 1, MantissaBits + x.e))

(* optimize_png, lines 41-49: the size the image is resized to, or its own *)
(* size when neither dimension exceeds max_dimension                       *)
Resize(w, h) ==
    IF w > max_dimension \/ h > max_dimension
    THEN IF w > h
         THEN <<max_dimension, IntOf(MulInt(h, TrueDiv(max_dimension, w)))>>
         ELSE <<IntOf(MulInt(w, TrueDiv(max_dimension, h))), max_dimension>>
    ELSE <<w, h>>

----------------------------------------------------------------------------
(* Paths.  A path is a sequence of names; a name is a sequence of tokens,  *)
(* each token either the dot "." or a non-empty run of other characters.   *)

(* name.rfind('.'), 1-based; 0 when the name holds no dot *)
RFindDot(name) ==
    LET dots == {i \in 1..Len(name) : name[i] = "."}
    IN  IF dots = {} THEN 0 ELSE CHOOSE i \in dots : \A j \in dots : j <= i

(* PurePath.suffix of a name: from the last dot on, unless that dot is the *)
(* first or the last character of the name                                 *)
Suffix(name) ==
    LET i == RFindDot(name)
    IN  IF 1 < i /\ i < Len(name) THEN SubSeq(name, i, Len(name)) ELSE <<>>

WithSuffix_Append(p, suffix) ==
    SubSeq(p, 1, Len(p) - 1) \o <<p[Len(p)] \o suffix>>

(* PurePath.with_suffix on a path with a non-empty last name *)
WithSuffix(p, suffix) ==
    LET name == p[Len(p)]
        old == Suffix(name)
        new == IF old = <<>> THEN name \o suffix
               ELSE SubSeq(name, 1, Len(name) - Len(old)) \o suffix
    IN  SubSeq(p, 1, Len(p) - 1) \o <<new>>

IsPrefix(base, p) ==
    Len(base) <= Len(p) /\ SubSeq(p, 1, Len(base)) = base

(* PurePath.relative_to: ValueError when p is not under base *)
RelativeTo(p, base) ==
    IF IsPrefix(base, p) THEN SubSeq(p, Len(base) + 1, Len(p)) ELSE "ValueError"

Parent(p) == SubSeq(p, 1, Len(p) - 1)

(* mkdir(parents=True, exist_ok=True): the directory and its ancestors *)
MkdirParents(d) == {SubSeq(d, 1, k) : k \in 1..Len(d)}

(* The extension the outputs of a transform get *)
OutSuffix(f) == IF f = "optimize_png" THEN <<".", "jpg">> ELSE <<".", "png">>

(* Lines 72-73 and 103-104: the output path of an enumerated file *)
OutputPath(f, input_dir, output_dir, suffix) ==
    output_dir \o WithSuffix(RelativeTo(f, input_dir), suffix)

(* Lines 72-75 and 103-106: the task of an enumerated file *)
MapToTask(f, input_dir, output_dir, suffix) ==
    [inp |-> f, out |-> OutputPath(f, input_dir, output_dir, suffix)]

----------------------------------------------------------------------------
(* The directory tree of a run: file i of the tree, for each transform *)

Extensions(f) ==
    CASE f = "convert_heic_to_png" -> <<"heic", "HEIC", "heif", "HEIF">>
      [] f = "convert_cr2_to_png" -> <<"cr2", "CR2">>
      [] OTHER -> <<"png">>

InputDir(f) == IF f = "optimize_png" THEN << <<"out">> >> ELSE << <<"a">> >>
OutputDir(f) == IF f = "optimize_png" THEN << <<"opt">> >> ELSE << <<"out">> >>

TreeFile(f, i) ==
    LET exts == Extensions(f)
        ext == exts[((i - 1) % Len(exts)) + 1]
        sub == IF i % 2 = 1 THEN << <<"b">> >> ELSE <<>>
    IN  InputDir(f) \o sub \o << <<"c", ToString(i), ".", ext>> >>

(* Pixel sizes of the images of the tree *)
TreeDims == << <<6000, 4000>>, <<800, 600>>, <<4210, 4210>>, <<3000, 4001>> >>
TreeDim(i) == TreeDims[((i - 1) % Len(TreeDims)) + 1]

----------------------------------------------------------------------------
(* optimize_png *)

DefaultMaxMb == 15

(* Lines 58-60: the except clause *)
OptimizeFailed == Returned(FALSE, 0)

AcceptAttempt_LateFloor(size_mb, quality) ==
    size_mb <= max_size_mb \/ quality < QualityFloor - QualityStep
AcceptAttempt_Strict(size_mb, quality) ==
    size_mb < max_size_mb \/ quality < QualityFloor

(* Line 55: the attempt is accepted *)
AcceptAttempt(size_mb, quality) ==
    size_mb <= max_size_mb \/ quality < QualityFloor

Accepted_FloorFails(size_mb, quality) ==
    IF quality < QualityFloor /\ size_mb > max_size_mb
    THEN [raised |-> FALSE, ok |-> FALSE, size |-> 0, floor |-> TRUE]
    ELSE [raised |-> FALSE, ok |-> TRUE, size |-> size_mb,
          floor |-> quality < QualityFloor]

(* Line 56: return True, size_mb *)
Accepted(size_mb, quality) ==
    [raised |-> FALSE, ok |-> TRUE, size |-> size_mb,
     floor |-> quality < QualityFloor]

NextQuality_Ten(quality) == quality - 2 * QualityStep

(* Line 57 *)
NextQuality(quality) == quality - QualityStep

(* Lines 52-60: every result the size-search loop can return when entered  *)
(* with this quality, over all sizes img.save can produce and all passes   *)
(* in which img.save or os.path.getsize can raise                          *)
RECURSIVE LoopResults(_)
LoopResults(quality) ==
    {OptimizeFailed}
    \cup {Accepted(s, quality) : s \in {x \in Sizes : AcceptAttempt(x, quality)}}
    \cup (IF \E s \in Sizes : ~AcceptAttempt(s, quality)
          THEN LoopResults(NextQuality(quality))
          ELSE {})

(* Lines 35-60: every result optimize_png can return for a file whose     *)
(* image lines 41-49 resize to file.img; Image.open and img.convert can    *)
(* raise, img.resize raises on an empty size                               *)
optimize_png(file) ==
    {OptimizeFailed}
    \cup (IF file.img[1] = 0 \/ file.img[2] = 0
          THEN {}
          ELSE LoopResults(StartQuality))

(* The same call, followed pass by pass in the variable call *)

IdleCall == [at |-> "idle"]
IdleMap == [at |-> "idle"]
IdleEnum == [at |-> "idle"]
IdleSel == [at |-> "idle"]

NewCall(dim) ==
    [at |-> "open", dim |-> dim, img |-> <<0, 0>>, quality |-> 0,
     size_mb |-> 0, log |-> <<>>, res |-> NoResult]

(* Lines 36-51: open, convert the mode, resize, quality = 90 *)
OptOpen ==
    /\ call.at = "open"
    /\ \E exc \in BOOLEAN :
          LET new == Resize(call.dim[1], call.dim[2])
          IN  IF exc
              THEN call' = [call EXCEPT !.at = "returned", !.res = OptimizeFailed]
              ELSE IF new[1] = 0 \/ new[2] = 0
                   THEN call' = [call EXCEPT !.at = "returned", !.img = new,
                                             !.res = OptimizeFailed]
                   ELSE call' = [call EXCEPT !.at = "loop", !.img = new,
                                             !.quality = StartQuality]
    /\ UNCHANGED <<poolVars, max_size_mb, pm, en, sel>>

(* Lines 53-57: one pass of the loop.  exc says whether img.save or        *)
(* os.path.getsize raised, size_mb is the size measured                    *)
OptEncode ==
    /\ call.at = "loop"
    /\ \E exc \in BOOLEAN : \E size_mb \in Sizes :
          LET q == call.quality
              entry == [quality |-> q, raised |-> exc,
                        fits |-> ~exc /\ size_mb <= max_size_mb]
              logged == [call EXCEPT !.log = Append(@, entry)]
          IN  IF exc
              THEN call' = [logged EXCEPT !.at = "returned", !.res = OptimizeFailed]
              ELSE IF AcceptAttempt(size_mb, q)
                   THEN call' = [logged EXCEPT !.at = "returned",
                                               !.size_mb = size_mb,
                                               !.res = Accepted(size_mb, q)]
                   ELSE call' = [logged EXCEPT !.size_mb = size_mb,
                                               !.quality = NextQuality(q)]
    /\ UNCHANGED <<poolVars, max_size_mb, pm, en, sel>>

----------------------------------------------------------------------------
(* One run of process_conversion or process_optimization *)

(* tqdm(...): a new bar has no postfix *)
NoPostfix == [set |-> FALSE, success |-> 0, fail |-> 0, elapsed |-> 0]

(* time.time() returns the value it returned last, or a later one *)
Elapse == 0..1

(* The files of a run; img is the size optimize_png resizes the image to, *)
(* a function of its size dim                                              *)
FileList(f, n) ==
    [i \in 1..n |->
        [path |-> TreeFile(f, i), dim |-> TreeDim(i),
         img |-> Resize(TreeDim(i)[1], TreeDim(i)[2])]]

Init ==
    /\ func \in Funcs
    /\ max_workers \in WorkerOptions
    /\ max_size_mb \in (IF func = "optimize_png" THEN SizeCaps ELSE {DefaultMaxMb})
    /\ \E n \in 0..MaxTasks : files = FileList(func, n)
    /\ pc = "start"
    /\ tasks = <<>>
    /\ dirs = {}
    /\ fut = [t \in 1..Len(files) |-> NewFuture]
    /\ invoked = [t \in 1..Len(files) |-> 0]
    /\ counted = [t \in 1..Len(files) |-> 0]
    /\ success = 0
    /\ fail = 0
    /\ total_optimized_size = 0
    /\ pbar = 0
    /\ postfix = NoPostfix
    /\ start = 0
    /\ now = 0
    /\ printed = <<>>
    /\ call = IdleCall
    /\ pm = IdleMap
    /\ en = IdleEnum
    /\ sel = IdleSel

NoFiles_Proceeds ==
    /\ pc = "start"
    /\ files = <<>>
    /\ pc' = "build"
    /\ UNCHANGED <<func, max_workers, max_size_mb, files, tasks, dirs, fut,
                   invoked, counted, success, fail, total_optimized_size, pbar,
                   postfix, start, now, printed, call, pm, en, sel>>

(* Lines 156-159 (conversion) and 95-98 (optimization): nothing to do *)
NoFiles ==
    /\ pc = "start"
    /\ files = <<>>
    /\ pc' = "nofiles"
    /\ printed' = Append(printed, "nofiles")
    /\ UNCHANGED <<func, max_workers, max_size_mb, files, tasks, dirs, fut,
                   invoked, counted, success, fail, total_optimized_size, pbar,
                   postfix, start, now, call, pm, en, sel>>

BuildTask_NoMkdir ==
    /\ pc \in {"start", "build"}
    /\ Len(tasks) < Len(files)
    /\ LET f == files[Len(tasks) + 1].path
       IN  tasks' = Append(tasks, MapToTask(f, InputDir(func), OutputDir(func),
                                           OutSuffix(func)))
    /\ pc' = "build"
    /\ printed' = IF pc = "start" THEN Append(printed, "found") ELSE printed
    /\ UNCHANGED <<func, max_workers, max_size_mb, files, dirs, fut, invoked,
                   counted, success, fail, total_optimized_size, pbar, postfix,
                   start, now, call, pm, en, sel>>

(* Lines 71-75 and 102-106: one iteration of the loop that builds the      *)
(* tasks; the first one follows the line that reports the files found      *)
(* (lines 161 and 99)                                                      *)
BuildTask ==
    /\ pc \in {"start", "build"}
    /\ Len(tasks) < Len(files)
    /\ LET f == files[Len(tasks) + 1].path
           task == MapToTask(f, InputDir(func), OutputDir(func), OutSuffix(func))
       IN  /\ dirs' = dirs \cup MkdirParents(Parent(task.out))
           /\ tasks' = Append(tasks, task)
    /\ pc' = "build"
    /\ printed' = IF pc = "start" THEN Append(printed, "found") ELSE printed
    /\ UNCHANGED <<func, max_workers, max_size_mb, files, fut, invoked, counted,
                   success, fail, total_optimized_size, pbar, postfix, start,
                   now, call, pm, en, sel>>

(* Lines 77-79 and 109-112: the start time is taken, the counters are set  *)
(* to zero, the pool is made                                               *)
StartPool ==
    /\ pc = "build"
    /\ Len(tasks) = Len(files)
    /\ start' = now
    /\ success' = 0
    /\ fail' = 0
    /\ total_optimized_size' = 0
    /\ pc' = "submit"
    /\ UNCHANGED <<func, max_workers, max_size_mb, files, tasks, dirs, fut,
                   invoked, counted, pbar, postfix, now, printed, call, pm,
                   en, sel>>

(* Lines 80 and 113: ex.submit of the next task of the list; after the     *)
(* last one the progress bar is made and as_completed is entered           *)
Submit ==
    /\ pc = "submit"
    /\ LET j == Cardinality(Submitted) + 1
       IN  /\ fut' = [fut EXCEPT ![j].st = "pending"]
           /\ pc' = IF j = Len(tasks) THEN "collect" ELSE "submit"
    /\ pbar' = 0
    /\ UNCHANGED <<func, max_workers, max_size_mb, files, tasks, dirs,
                   invoked, counted, success, fail, total_optimized_size,
                   postfix, start, now, printed, call, pm, en, sel>>

----------------------------------------------------------------------------
(* The worker threads *)

(* A free worker thread takes the oldest work item and calls the transform *)
WorkerStart(t) ==
    /\ t \in Pending
    /\ t = QueueHead
    /\ WorkerFree
    /\ fut' = [fut EXCEPT ![t].st = "running"]
    /\ invoked' = [invoked EXCEPT ![t] = @ + 1]
    /\ UNCHANGED <<func, max_workers, max_size_mb, files, pc, tasks, dirs,
                   counted, success, fail, total_optimized_size, pbar, postfix,
                   start, now, printed, call, pm, en, sel>>

(* Every result the call of the transform on task t can end with *)
TransformResults(t) ==
    CASE func = "convert_heic_to_png" -> {convert_heic_to_png(exc) : exc \in BOOLEAN}
      [] func = "convert_cr2_to_png" -> {convert_cr2_to_png(exc) : exc \in BOOLEAN}
      [] OTHER -> optimize_png(files[t])

WorkerFinish_Counts(t) ==
    /\ t \in Running
    /\ \E res \in TransformResults(t) :
          /\ fut' = [fut EXCEPT ![t].st = "finished", ![t].res = res]
          /\ success' = IF res.ok THEN success + 1 ELSE success
          /\ fail' = IF res.ok THEN fail ELSE fail + 1
    /\ UNCHANGED <<func, max_workers, max_size_mb, files, pc, tasks, dirs,
                   invoked, counted, total_optimized_size, pbar, postfix,
                   start, now, printed, call, pm, en, sel>>

(* The call returns (or raises) and the worker sets the future *)
WorkerFinish(t) ==
    /\ t \in Running
    /\ \E res \in TransformResults(t) :
          fut' = [fut EXCEPT ![t].st = "finished", ![t].res = res]
    /\ UNCHANGED <<func, max_workers, max_size_mb, files, pc, tasks, dirs,
                   invoked, counted, success, fail, total_optimized_size, pbar,
                   postfix, start, now, printed, call, pm, en, sel>>

----------------------------------------------------------------------------
(* The aggregation loop of the main thread *)

CountSuccess_Always(res) == success + 1
CountFail_Dropped(res) == fail

(* Lines 83-86 and 117-121 *)
CountSuccess(res) == IF res.ok THEN success + 1 ELSE success
CountFail(res) == IF res.ok THEN fail ELSE fail + 1

AddSize_Overwrite(res) ==
    IF IsOptimization /\ res.ok THEN res.size ELSE total_optimized_size

(* Line 119 *)
AddSize(res) ==
    IF IsOptimization /\ res.ok
    THEN total_optimized_size + res.size
    ELSE total_optimized_size

(* The loop body of process_conversion reads the clock (line 87), the one  *)
(* of process_optimization does not                                        *)
ClockRead == IF IsOptimization THEN {0} ELSE Elapse

(* Lines 87-88: the postfix process_conversion sets from the counters just *)
(* updated and the time read at t; the loop of process_optimization (lines *)
(* 115-122) sets none                                                      *)
PostfixAfter(res, t) ==
    IF IsOptimization
    THEN postfix
    ELSE [set |-> TRUE, success |-> CountSuccess(res), fail |-> CountFail(res),
          elapsed |-> t - start]

(* Lines 82-89 and 115-122: as_completed yields a finished future and the  *)
(* loop body counts it.  future.result() re-raises what the call raised,   *)
(* which leaves the loop and the function                                  *)
Consume(t) ==
    /\ pc = "collect"
    /\ t \in Completed
    /\ counted' = [counted EXCEPT ![t] = @ + 1]
    /\ LET res == fut[t].res
       IN  IF res.raised
           THEN /\ pc' = "crashed"
                /\ UNCHANGED <<success, fail, total_optimized_size, pbar,
                               postfix, now>>
           ELSE /\ success' = CountSuccess(res)
                /\ fail' = CountFail(res)
                /\ total_optimized_size' = AddSize(res)
                /\ \E d \in ClockRead :
                      /\ now' = now + d
                      /\ postfix' = PostfixAfter(res, now + d)
                /\ pbar' = pbar + 1
                /\ pc' = pc
    /\ UNCHANGED <<func, max_workers, max_size_mb, files, tasks, dirs, fut,
                   invoked, start, printed, call, pm, en, sel>>

(* Lines 89-92 and 122-131: as_completed is exhausted, the executor is     *)
(* shut down with wait=True, the summary is printed; process_optimization  *)
(* reads the clock for it (line 123)                                       *)
Finish ==
    /\ pc = "collect"
    /\ AsCompletedExhausted
    /\ ShutdownDone
    /\ pc' = "done"
    /\ \E d \in (IF IsOptimization THEN Elapse ELSE {0}) : now' = now + d
    /\ printed' = Append(printed, "done")
    /\ UNCHANGED <<func, max_workers, max_size_mb, files, tasks, dirs, fut,
                   invoked, counted, success, fail, total_optimized_size, pbar,
                   postfix, start, call, pm, en, sel>>

Next ==
    \/ NoFiles
    \/ BuildTask
    \/ StartPool
    \/ Submit
    \/ \E t \in TaskIds : WorkerStart(t)
    \/ \E t \in TaskIds : WorkerFinish(t)
    \/ \E t \in TaskIds : Consume(t)
    \/ Finish

Spec == Init /\ [][Next]_vars

----------------------------------------------------------------------------
(* One call of optimize_png, pass by pass: the image size and the size cap *)
(* are drawn from bounded sets, the pool is not running                    *)

DimSamples == {1, 2105, 2667, 4000, 4001, 4210, 6000, 8001}
OptCaps == 0..(MaxSizeMb + 1)

IdlePool ==
    /\ max_workers = 2
    /\ files = <<>>
    /\ pc = "idle"
    /\ tasks = <<>>
    /\ dirs = {}
    /\ fut = <<>>
    /\ invoked = <<>>
    /\ counted = <<>>
    /\ success = 0
    /\ fail = 0
    /\ total_optimized_size = 0
    /\ pbar = 0
    /\ postfix = NoPostfix
    /\ start = 0
    /\ now = 0
    /\ printed = <<>>

InitOpt ==
    /\ func = "optimize_png"
    /\ IdlePool
    /\ max_size_mb \in OptCaps
    /\ \E w \in DimSamples, h \in DimSamples : call = NewCall(<<w, h>>)
    /\ pm = IdleMap
    /\ en = IdleEnum
    /\ sel = IdleSel

NextOpt ==
    \/ OptOpen
    \/ OptEncode

SpecOpt == InitOpt /\ [][NextOpt]_vars

----------------------------------------------------------------------------
(* One application of the path mapping of lines 72-73 and 103-104 to a     *)
(* file the enumerator can yield: a name that ends with one of the         *)
(* extensions searched for, in a directory under the input directory       *)

MaxStemLen == 3
MaxDepth == 2

RECURSIVE SeqsUpTo(_, _)
SeqsUpTo(S, n) ==
    IF n = 0 THEN {<<>>}
    ELSE LET shorter == SeqsUpTo(S, n - 1)
         IN  shorter \cup {Append(q, x) : q \in shorter, x \in S}

StemTokens == {"c", "."}
DirNames == {<<"b">>, <<"x", ".", "d">>}
InputDirs == {<< <<"a">> >>, << <<"a">>, <<"in">> >>}
OutputDirs == {<< <<"out">> >>, << <<"a">>, <<"out">> >>}

(* The names Path.glob('**/*' + ext) matches: anything, then the extension *)
GlobNames(ext) == {stem \o <<".", ext>> : stem \in SeqsUpTo(StemTokens, MaxStemLen)}

InitPath ==
    /\ func \in Funcs
    /\ IdlePool
    /\ max_size_mb = DefaultMaxMb
    /\ call = IdleCall
    /\ en = IdleEnum
    /\ sel = IdleSel
    /\ \E input_dir \in InputDirs, output_dir \in OutputDirs,
          sub \in SeqsUpTo(DirNames, MaxDepth),
          i \in 1..Len(Extensions(func)) :
          \E name \in GlobNames(Extensions(func)[i]) :
             pm = [at |-> "file", input_dir |-> input_dir, output_dir |-> output_dir,
                   ext |-> Extensions(func)[i],
                   f |-> input_dir \o sub \o <<name>>]

(* Lines 72-75 and 103-106 for the one file *)
MapPath ==
    /\ pm.at = "file"
    /\ LET task == MapToTask(pm.f, pm.input_dir, pm.output_dir, OutSuffix(func))
       IN  pm' = [at |-> "mapped", input_dir |-> pm.input_dir,
                  output_dir |-> pm.output_dir, ext |-> pm.ext, f |-> pm.f,
                  task |-> task, made |-> MkdirParents(Parent(task.out))]
    /\ UNCHANGED <<poolVars, max_size_mb, call, en, sel>>

NextPath == MapPath

SpecPath == InitPath /\ [][NextPath]_vars

----------------------------------------------------------------------------
(* The enumeration: get_files_for_conversion (lines 62-67) and the glob of *)
(* line 95, over a small directory tree, followed by the loop that builds  *)
(* the tasks.  Path.glob matches names against the pattern case-sensitively *)
(* with the POSIX flavour of pathlib and ignoring case with the Windows    *)
(* flavour; which one runs is the platform's choice.                       *)

MaxTreeFiles == 3

(* str.lower, on the extensions of the tree *)
Lower(x) ==
    CASE x = "HEIC" -> "heic"
      [] x = "HEIF" -> "heif"
      [] x = "CR2" -> "cr2"
      [] x = "PNG" -> "png"
      [] OTHER -> x

Fold(p) == [i \in DOMAIN p |-> [j \in DOMAIN p[i] |-> Lower(p[i][j])]]

(* The pattern '*' + '.' + ext matches the name *)
GlobMatch(ext, name, case_sensitive) ==
    /\ Len(name) >= 2
    /\ name[Len(name) - 1] = "."
    /\ IF case_sensitive
       THEN name[Len(name)] = ext
       ELSE Lower(name[Len(name)]) = Lower(ext)

(* Extensions of the files of a tree: the ones searched for, in both       *)
(* cases, and one no search is for                                         *)
TreeExtensions(f) ==
    {Extensions(f)[i] : i \in 1..Len(Extensions(f))}
    \cup (IF f = "optimize_png" THEN {"PNG"} ELSE {})
    \cup {"txt"}

(* Files a tree under the input directory can hold *)
TreePaths(f) ==
    {InputDir(f) \o sub \o << <<stem, ".", ext>> >> :
        sub \in {<<>>, << <<"b">> >>}, stem \in {"x", "y"},
        ext \in TreeExtensions(f)}

(* A file system that ignores case holds no two names that differ in case  *)
(* only                                                                    *)
ValidTree(tree, case_sensitive) ==
    case_sensitive \/ \A p, q \in tree : Fold(p) = Fold(q) => p = q

(* The orders in which a directory scan can yield the files of a set *)
Orderings(S) ==
    {q \in [1..Cardinality(S) -> S] :
        \A i, j \in 1..Cardinality(S) : q[i] = q[j] => i = j}

(* An enumerated file; its image is small enough not to be resized *)
FileOf(p) == [path |-> p, dim |-> TreeDim(2), img |-> TreeDim(2)]

InitEnum ==
    /\ func \in Funcs
    /\ IdlePool
    /\ max_size_mb = DefaultMaxMb
    /\ call = IdleCall
    /\ pm = IdleMap
    /\ sel = IdleSel
    /\ \E tree \in SUBSET TreePaths(func), case_sensitive \in BOOLEAN :
          /\ Cardinality(tree) <= MaxTreeFiles
          /\ ValidTree(tree, case_sensitive)
          /\ en = [at |-> "glob", tree |-> tree,
                   case_sensitive |-> case_sensitive, k |-> 1]

(* Lines 65-66 (line 95 for the one extension of process_optimization):    *)
(* one search, its matches appended to files; after the last search the    *)
(* list is returned                                                        *)
GlobExt ==
    /\ en.at = "glob"
    /\ LET exts == Extensions(func)
           ext == exts[en.k]
           found == {p \in en.tree :
                       GlobMatch(ext, p[Len(p)], en.case_sensitive)}
           last == en.k = Len(exts)
       IN  /\ \E order \in Orderings(found) :
                 files' = files \o [i \in 1..Cardinality(found) |-> FileOf(order[i])]
           /\ en' = IF last THEN [en EXCEPT !.at = "returned"]
                    ELSE [en EXCEPT !.k = @ + 1]
           /\ pc' = IF last THEN "start" ELSE pc
    /\ UNCHANGED <<func, max_workers, max_size_mb, tasks, dirs, fut, invoked,
                   counted, success, fail, total_optimized_size, pbar, postfix,
                   start, now, printed, call, pm, sel>>

NextEnum ==
    \/ GlobExt
    \/ NoFiles
    \/ BuildTask

SpecEnum == InitEnum /\ [][NextEnum]_vars

----------------------------------------------------------------------------
(* The thread-selection dialogue of the main block (lines 163-187): the    *)
(* options are computed from the machine's thread count, a number is asked *)
(* for until it is one of the options, and the run is confirmed            *)

MaxCpu == 8

DefaultCpuThreads == 4

(* os.cpu_count(): None, or a positive number *)
CpuCounts ==
    {[known |-> FALSE, n |-> 0]} \cup {[known |-> TRUE, n |-> k] : k \in 1..MaxCpu}

(* Line 163: os.cpu_count() or 4 *)
CpuThreads(c) == IF c.known /\ c.n # 0 THEN c.n ELSE DefaultCpuThreads

(* Line 164: range(2, cpu_threads + 1, 2) *)
ThreadOptions(cpu_threads) == {k \in 2..cpu_threads : k % 2 = 0}

(* The numbers typed at the prompt of line 168 *)
ThreadInputs == (0 - 1)..(MaxCpu + 1)

InitMain ==
    /\ func \in {"convert_heic_to_png", "convert_cr2_to_png"}
    /\ IdlePool
    /\ max_size_mb = DefaultMaxMb
    /\ call = IdleCall
    /\ pm = IdleMap
    /\ en = IdleEnum
    /\ \E c \in CpuCounts :
          sel = [at |-> "count", cpu_count |-> c, cpu_threads |-> 0,
                 thread_options |-> {}, assigned |-> FALSE,
                 chosen_threads |-> 0, refused |-> FALSE]

(* Lines 163-165: the thread count is read and the options are offered *)
OfferThreads ==
    /\ sel.at = "count"
    /\ sel' = [sel EXCEPT !.at = "threads",
                          !.cpu_threads = CpuThreads(sel.cpu_count),
                          !.thread_options = ThreadOptions(CpuThreads(sel.cpu_count))]
    /\ UNCHANGED <<poolVars, max_size_mb, call, pm, en>>

(* Lines 166-173: one pass of the loop.  isint says whether int(input())   *)
(* returned; when it raises ValueError chosen_threads keeps its value      *)
AskThreads ==
    /\ sel.at = "threads"
    /\ \E isint \in BOOLEAN, v \in ThreadInputs :
          IF ~isint
          THEN sel' = [sel EXCEPT !.refused = TRUE]
          ELSE IF v \in sel.thread_options
               THEN sel' = [sel EXCEPT !.assigned = TRUE, !.chosen_threads = v,
                                       !.at = "confirm"]
               ELSE sel' = [sel EXCEPT !.assigned = TRUE, !.chosen_threads = v,
                                       !.refused = TRUE]
    /\ UNCHANGED <<poolVars, max_size_mb, call, pm, en>>

(* Lines 175-191: the confirmation; on 'S' process_conversion is called    *)
(* with max_workers = chosen_threads                                       *)
Confirm ==
    /\ sel.at = "confirm"
    /\ \E yes \in BOOLEAN :
          IF yes
          THEN /\ sel' = [sel EXCEPT !.at = "run"]
               /\ max_workers' = sel.chosen_threads
          ELSE /\ sel' = [sel EXCEPT !.at = "cancelled"]
               /\ max_workers' = max_workers
    /\ UNCHANGED <<func, max_size_mb, files, pc, tasks, dirs, fut, invoked,
                   counted, success, fail, total_optimized_size, pbar, postfix,
                   start, now, printed, call, pm, en>>

NextMain ==
    \/ OfferThreads
    \/ AskThreads
    \/ Confirm

SpecMain == InitMain /\ [][NextMain]_vars

----------------------------------------------------------------------------
(* Quantities the properties speak of *)

Consumed == {t \in TaskIds : counted[t] > 0}
Succeeded == {t \in TaskIds : fut[t].st = "finished" /\ fut[t].res.ok}
FailedTasks == {t \in TaskIds : fut[t].st = "finished" /\ ~fut[t].res.ok}

RECURSIVE SumSize(_)
SumSize(S) ==
    IF S = {} THEN 0
    ELSE LET t == CHOOSE x \in S : TRUE
         IN  fut[t].res.size + SumSize(S \ {t})

RECURSIVE SumCounted(_)
SumCounted(S) ==
    IF S = {} THEN 0
    ELSE LET t == CHOOSE x \in S : TRUE
         IN  counted[t] + SumCounted(S \ {t})

----------------------------------------------------------------------------
(* C1: when a run of process_conversion or process_optimization completes, *)
(* the success count plus the failure count equals the number of tasks of  *)
(* the task list.                                                          *)
C1_CountsAddUp ==
    pc = "done" => success + fail = Len(tasks) /\ Len(tasks) = Len(files)

C1_Witness ==
    /\ pc = "done"
    /\ Len(tasks) >= 3
    /\ success >= 1
    /\ fail >= 1

(* Steps a task still has to take: be submitted, be started, finish, be   *)
(* consumed                                                                *)
TaskRank(t) ==
    IF counted[t] > 0 THEN 0
    ELSE CASE fut[t].st = "new" -> 4
           [] fut[t].st = "pending" -> 3
           [] fut[t].st = "running" -> 2
           [] OTHER -> 1

RECURSIVE SumRank(_)
SumRank(n) ==
    IF n = 0 THEN 0 ELSE TaskRank(n) + SumRank(n - 1)

(* Steps the run still has to take *)
Rank ==
    (CASE pc \in {"start", "build"} -> 3
       [] pc = "submit" -> 2
       [] pc = "collect" -> 1
       [] OTHER -> 0)
    + (Len(files) - Len(tasks)) + SumRank(N)

(* C2: every submitted task has its transform called exactly once, its     *)
(* result is eventually consumed exactly once by the aggregation loop, and *)
(* the run ends only after every submitted task has finished and has been  *)
(* counted.  "Eventually" is stated as: no transform is called and no      *)
(* result consumed twice; until the run has ended some step can always be  *)
(* taken; and every step lowers Rank, the number of steps left, so the run *)
(* cannot go on for ever and ends with every task called once and counted  *)
(* once.                                                                   *)
C2_ExactlyOnce ==
    /\ [](\A t \in TaskIds : invoked[t] <= 1 /\ counted[t] <= 1)
    /\ [](pc \notin {"done", "nofiles"} => ENABLED Next)
    /\ [][Rank' < Rank /\ Rank' >= 0]_vars
    /\ [](pc = "done" =>
            \A t \in TaskIds :
               /\ fut[t].st = "finished"
               /\ invoked[t] = 1
               /\ counted[t] = 1)

C2_Witness ==
    /\ pc = "done"
    /\ Len(tasks) >= 3
    /\ \A t \in TaskIds : invoked[t] = 1 /\ counted[t] = 1

(* C3: a failing transform returns a failure result instead of raising, is *)
(* counted exactly once as a failure, and neither aborts the run nor keeps *)
(* the other tasks from being run and counted; with one failing file among *)
(* N the final counts are success = N - 1 and fail = 1.                    *)
C3_FailureIsolation ==
    /\ pc # "crashed"
    /\ \A t \in TaskIds : ~fut[t].res.raised
    /\ pc = "done" =>
          /\ \A t \in TaskIds : invoked[t] = 1 /\ counted[t] = 1
          /\ fail = Cardinality(FailedTasks)
          /\ success = Len(tasks) - Cardinality(FailedTasks)
          /\ Cardinality(FailedTasks) = 1 => success = Len(tasks) - 1 /\ fail = 1

C3_Witness ==
    /\ pc = "done"
    /\ Len(tasks) >= 3
    /\ Cardinality(FailedTasks) = 1
    /\ fail = 1

----------------------------------------------------------------------------
(* Properties of one call of optimize_png (SpecOpt) *)

(* Passes at the qualities 90, 85, ..., 30, and the one below the floor *)
MaxAttempts == (StartQuality - QualityFloor) \div QualityStep + 2

(* C4, as claimed: the size-search loop ends after at most 13 encode       *)
(* attempts.                                                               *)
C4_AtMost13Attempts == Len(call.log) <= 13

(* C4, amended: the size-search loop ends after at most 14 encode          *)
(* attempts, the 13 at the qualities 90 down to 30 and the one at 25; a    *)
(* call that has made 14 has returned.                                     *)
C4_AtMost14Attempts ==
    /\ Len(call.log) <= MaxAttempts
    /\ Len(call.log) = MaxAttempts => call.at = "returned"
    /\ MaxAttempts = 14

C4_Witness ==
    /\ call.at = "returned"
    /\ call.res.ok
    /\ Len(call.log) = 14
    /\ call.log[14].quality = 25

(* C5: optimize_png encodes at the qualities 90, 85, 80, ... in that       *)
(* order and stops at the first attempt whose size is within max_size_mb   *)
(* or whose quality is below 30, returning (True, the size of that         *)
(* attempt); if the size at quality 90 is within max_size_mb there is      *)
(* exactly one attempt.                                                    *)
C5_SearchOrder ==
    LET log == call.log
        n == Len(log)
        Stops(e) == ~e.raised /\ (e.fits \/ e.quality < QualityFloor)
    IN  /\ \A i \in 1..n : log[i].quality = StartQuality - QualityStep * (i - 1)
        /\ \A i \in 1..(n - 1) : ~log[i].raised /\ ~Stops(log[i])
        /\ (n >= 1 /\ Stops(log[n])) =>
              /\ call.at = "returned"
              /\ call.res = [raised |-> FALSE, ok |-> TRUE, size |-> call.size_mb,
                             floor |-> log[n].quality < QualityFloor]
              /\ log[n].fits <=> call.size_mb <= max_size_mb
        /\ (call.at = "returned" /\ call.res.ok) => (n >= 1 /\ Stops(log[n]))
        /\ (n >= 1 /\ log[1].fits) => n = 1

C5_Witness ==
    /\ call.at = "returned"
    /\ call.res.ok
    /\ Len(call.log) = 3
    /\ call.log[3].fits
    /\ call.log[3].quality = 80
    /\ call.res.size = call.size_mb

(* round(a / b), ties to even, for ints a >= 0 and b > 0 *)
RoundDiv(a, b) ==
    LET q == a \div b
        r == a % b
    IN  IF 2 * r < b THEN q
        ELSE IF 2 * r > b THEN q + 1
        ELSE IF q % 2 = 0 THEN q ELSE q + 1

(* C6: when either dimension exceeds 4000, optimize_png resizes so that    *)
(* the longer side is 4000 and the shorter side is                         *)
(* round(shortSide * 4000 / longSide); a 6000x4000 image becomes           *)
(* 4000x2667.                                                              *)
C6_RoundedResize ==
    LET w == call.dim[1]
        h == call.dim[2]
        long == IF w > h THEN w ELSE h
        short == IF w > h THEN h ELSE w
        want == RoundDiv(short * max_dimension, long)
    IN  (call.at = "loop" /\ (w > max_dimension \/ h > max_dimension)) =>
           /\ call.img = (IF w > h THEN <<max_dimension, want>>
                                   ELSE <<want, max_dimension>>)
           /\ call.dim = <<6000, 4000>> => call.img = <<4000, 2667>>

----------------------------------------------------------------------------
(* Properties of a run (Spec), continued *)

(* C7: with the same results of the tasks' transforms, a run with 2, 4 or  *)
(* 8 workers ends with the same statistics, whatever the order in which    *)
(* the workers complete: the final success count, failure count and total  *)
(* size are functions of the tasks' results alone.                         *)
C7_OrderIndependent ==
    pc = "done" =>
       /\ max_workers \in {2, 4, 8}
       /\ success = Cardinality(Succeeded)
       /\ fail = Cardinality(FailedTasks)
       /\ total_optimized_size = SumSize(Succeeded)

C7_Witness ==
    /\ pc = "done"
    /\ IsOptimization
    /\ max_workers = 2
    /\ Len(tasks) >= 3
    /\ fail = 1
    /\ \E t, u \in Succeeded : fut[t].res.size # fut[u].res.size
    /\ total_optimized_size >= 3

(* C9, as claimed: at every point of a run the success count plus the      *)
(* failure count equals the number of tasks submitted to the pool so far.  *)
C9_CountsEqualDispatched ==
    pc \in {"submit", "collect", "done"} =>
       success + fail = Cardinality(Submitted)

(* C9, amended: at every point of a run the success count plus the failure *)
(* count equals the number of results consumed so far, which is at most    *)
(* the number of tasks submitted so far and equals it when the run has     *)
(* completed.                                                              *)
C9_CountsEqualConsumed ==
    pc \in {"submit", "collect", "done"} =>
       /\ success + fail = SumCounted(TaskIds)
       /\ success + fail <= Cardinality(Submitted)
       /\ pc = "done" => success + fail = Cardinality(Submitted)

C9_Witness ==
    /\ pc = "collect"
    /\ Cardinality(Submitted) = 3
    /\ success = 1
    /\ fail = 1
    /\ Cardinality(Finished) = 3

(* Tasks whose call ran the size-search loop down to the floor and whose   *)
(* last encoded file is still over the cap                                 *)
FloorOversize ==
    {t \in Finished : fut[t].res.floor /\ fut[t].res.size > max_size_mb}

(* C10: when the size exceeds max_size_mb at every quality from 90 down to *)
(* 30, optimize_png does not fail: it returns (True, the size of the last  *)
(* encoded file), the task is counted as a success and not as a failure,   *)
(* and its oversized size is added to the total optimized size.            *)
C10_FloorIsSuccess ==
    /\ \A t \in Finished :
          /\ fut[t].res.floor => fut[t].res.ok /\ fut[t].res.size \in Sizes
          /\ (fut[t].res.ok /\ fut[t].res.size > max_size_mb) => fut[t].res.floor
    /\ LET over == FloorOversize \cap Consumed
       IN  /\ success >= Cardinality(over)
           /\ fail <= Cardinality(Consumed) - Cardinality(over)
           /\ total_optimized_size >= SumSize(over)

C10_Witness ==
    /\ pc = "done"
    /\ IsOptimization
    /\ Cardinality(FloorOversize) = 2
    /\ success = 2
    /\ fail = 1
    /\ total_optimized_size = SumSize(FloorOversize)
    /\ total_optimized_size > 2 * max_size_mb

----------------------------------------------------------------------------
(* Properties of the path mapping (SpecPath) *)

(* The file's path relative to the input directory, its name, and the name *)
(* without the extension the enumerator matched                            *)
RelOf(m) == SubSeq(m.f, Len(m.input_dir) + 1, Len(m.f))
NameOf(m) == m.f[Len(m.f)]
StemOf(m) == SubSeq(NameOf(m), 1, Len(NameOf(m)) - 2)

(* The output root, the relative directories, the name with only its       *)
(* extension replaced                                                      *)
ExtensionReplaced(m) ==
    m.output_dir \o SubSeq(RelOf(m), 1, Len(RelOf(m)) - 1)
    \o << StemOf(m) \o OutSuffix(func) >>

(* C8, as claimed: for every enumerated file the output path is the output *)
(* root joined with the file's path relative to the input root with only   *)
(* its extension replaced by '.png' (conversion) or '.jpg' (optimization). *)
C8_ExtensionReplaced ==
    pm.at = "mapped" => pm.task.out = ExtensionReplaced(pm)

(* C8, amended: the same, for every enumerated file whose name has a       *)
(* character other than '.' before its extension; /a/b/c.heic under /a     *)
(* maps to /out/b/c.png.  (A name that is only the extension, as '.heic',  *)
(* has no suffix for pathlib and gets '.png' appended: '.heic.png'.)       *)
C8_ExtensionReplacedNamed ==
    pm.at = "mapped" =>
       /\ pm.task.inp = pm.f
       /\ (\E i \in 1..Len(StemOf(pm)) : StemOf(pm)[i] # ".") =>
             pm.task.out = ExtensionReplaced(pm)
       /\ StemOf(pm) = <<>> =>
             pm.task.out = pm.output_dir \o SubSeq(RelOf(pm), 1, Len(RelOf(pm)) - 1)
                           \o << NameOf(pm) \o OutSuffix(func) >>

C8_Witness ==
    /\ pm.at = "mapped"
    /\ pm.input_dir = << <<"a">> >>
    /\ pm.f = << <<"a">>, <<"b">>, <<"c", ".", "heic">> >>
    /\ pm.output_dir = << <<"out">> >>
    /\ pm.task.out = << <<"out">>, <<"b">>, <<"c", ".", "png">> >>

----------------------------------------------------------------------------
(* The two renderings of optimize_png agree: what a call followed pass by  *)
(* pass returns is one of the results the pool's workers can set.          *)
OptCallAgrees ==
    call.at = "returned" =>
       call.res \in optimize_png([img |-> Resize(call.dim[1], call.dim[2])])

----------------------------------------------------------------------------
(* C11: when the enumeration yields no file, the outcome is reported once  *)
(* and the run ends there: no output directory is created, no task is      *)
(* built, no pool is started, no transform is called and no further step   *)
(* is taken; and a pool is only ever started with at least one task.       *)
C11_NothingToDo ==
    /\ files = <<>> =>
          /\ pc \in {"start", "nofiles"}
          /\ dirs = {}
          /\ tasks = <<>>
          /\ printed = (IF pc = "nofiles" THEN <<"nofiles">> ELSE <<>>)
          /\ pc = "nofiles" => ~ENABLED Next
    /\ pc \in {"submit", "collect", "done", "crashed"} =>
          /\ Len(tasks) > 0
          /\ "nofiles" \notin {printed[i] : i \in 1..Len(printed)}
    /\ (\E t \in TaskIds : invoked[t] > 0) => pc \in {"submit", "collect", "done"}

C11_Witness ==
    /\ files = <<>>
    /\ pc = "nofiles"
    /\ printed = <<"nofiles">>
    /\ dirs = {}

----------------------------------------------------------------------------
(* C12, as claimed: in process_conversion and in process_optimization each *)
(* consumed result has advanced the progress bar by one, the notification  *)
(* made for it carries the running success and failure counts and the time *)
(* elapsed since the start of the run, and once the run is done the        *)
(* progress count equals the number of tasks.                              *)
C12_ProgressCarriesTallies ==
    /\ pc \in {"collect", "done"} => pbar = Cardinality(Consumed)
    /\ (pc = "collect" /\ pbar > 0) =>
          /\ postfix.set
          /\ postfix.success = success
          /\ postfix.fail = fail
          /\ postfix.elapsed = now - start
    /\ pc = "done" => pbar = Len(tasks) /\ postfix.set

----------------------------------------------------------------------------
(* Properties of the enumeration (SpecEnum) *)

(* C13, as claimed: no two tasks of the task list have the same pair of    *)
(* input path and output path, and the per-extension searches never put    *)
(* the same file into the list twice.                                      *)
C13_NoTaskTwice ==
    /\ \A i, j \in 1..Len(tasks) : tasks[i] = tasks[j] => i = j
    /\ \A i, j \in 1..Len(files) : files[i].path = files[j].path => i = j

----------------------------------------------------------------------------
(* The directory of a task's output and every ancestor of it exist *)
OutputDirExists(task) ==
    \A k \in 1..(Len(task.out) - 1) : SubSeq(task.out, 1, k) \in dirs

(* C14: from the first submission on, every task of the list has been      *)
(* built and the parent directory of every task's output exists; a         *)
(* directory is created only by the main thread while it builds the task   *)
(* list, before any task is submitted or any transform called, and never   *)
(* by a step of a worker.                                                  *)
C14_DirsBeforeSubmit ==
    /\ []((Submitted # {} \/ pc \in {"submit", "collect", "done"}) =>
            /\ Len(tasks) = Len(files)
            /\ \A i \in 1..Len(tasks) : OutputDirExists(tasks[i]))
    /\ [][dirs' # dirs =>
            /\ pc \in {"start", "build"}
            /\ Submitted = {}
            /\ \A t \in TaskIds : invoked[t] = 0
            /\ fut' = fut]_vars
    /\ [][(\E t \in TaskIds : fut'[t].st # fut[t].st /\ fut[t].st # "new")
            => dirs' = dirs]_vars

C14_Witness ==
    /\ pc = "collect"
    /\ Len(tasks) >= 3
    /\ \E t \in TaskIds : invoked[t] = 1
    /\ Cardinality(dirs) >= 2
    /\ \A i \in 1..Len(tasks) : OutputDirExists(tasks[i])

----------------------------------------------------------------------------
(* C15: success, fail and total_optimized_size change only in a step of    *)
(* the loop that consumes the finished futures, one result at a time, and  *)
(* never in a step of a worker; so whatever the order in which the workers *)
(* finish, after k results have been consumed success is the number of     *)
(* successful ones among them, fail the number of failed ones, their sum   *)
(* is k, and total_optimized_size is the sum of the sizes the successful   *)
(* ones returned.                                                          *)
C15_SingleWriter ==
    /\ [](pc \in {"submit", "collect", "done"} =>
            /\ success = Cardinality(Consumed \cap Succeeded)
            /\ fail = Cardinality(Consumed \cap FailedTasks)
            /\ success + fail = Cardinality(Consumed)
            /\ total_optimized_size =
                  (IF IsOptimization THEN SumSize(Consumed \cap Succeeded) ELSE 0))
    /\ [][<<success, fail, total_optimized_size>>' #
             <<success, fail, total_optimized_size>> =>
            /\ pc = "collect"
            /\ fut' = fut
            /\ invoked' = invoked
            /\ \E t \in Completed : counted' = [counted EXCEPT ![t] = 1]]_vars

C15_Witness ==
    /\ pc = "collect"
    /\ IsOptimization
    /\ Cardinality(Consumed) = 2
    /\ success = 1
    /\ fail = 1
    /\ total_optimized_size > 0
    /\ \E t \in Finished \ Consumed : fut[t].res.ok /\ fut[t].res.size > 0

----------------------------------------------------------------------------
(* C16: at every moment at most max_workers calls of the transform are     *)
(* under way; and while the main thread is in the as_completed loop, the   *)
(* result of every finished task not yet consumed can be consumed at once, *)
(* whatever tasks submitted before it are still pending or running.        *)
C16_BoundedAndUnordered ==
    /\ Cardinality(Running) <= max_workers
    /\ pc = "collect" =>
          \A t \in TaskIds :
             (fut[t].st = "finished" /\ counted[t] = 0) => ENABLED Consume(t)

C16_Witness ==
    /\ pc = "collect"
    /\ max_workers = 2
    /\ Len(tasks) >= 3
    /\ Running = {1, 3}
    /\ counted[2] = 1

----------------------------------------------------------------------------
(* C17, as claimed: no two tasks of the task list have the same output     *)
(* path, so no two calls of the transform write the same file, whatever    *)
(* files the tree holds (x.heic next to x.HEIF included).                  *)
C17_NoSharedOutput ==
    \A i, j \in 1..Len(tasks) : tasks[i].out = tasks[j].out => i = j

----------------------------------------------------------------------------
(* C18: throughout the size-search loop of optimize_png the quality an     *)
(* encode is made with is a multiple of 5 between 25 and 90; from one      *)
(* attempt to the next it goes down by exactly 5; and no encode is made    *)
(* with a quality below 25.                                                *)
C18_QualityRange ==
    /\ [](call.at = "loop" =>
            /\ call.quality \in 25..90
            /\ call.quality % 5 = 0)
    /\ [](call.at \in {"loop", "returned"} =>
            \A i \in 1..Len(call.log) :
               /\ call.log[i].quality \in 25..90
               /\ call.log[i].quality % 5 = 0
               /\ i > 1 => call.log[i].quality = call.log[i - 1].quality - 5)
    /\ [][(call.at = "loop" /\ call'.at = "loop") =>
            /\ call'.quality = call.quality - 5
            /\ call'.log = Append(call.log, call'.log[Len(call'.log)])
            /\ call'.log[Len(call'.log)].quality = call.quality]_vars

C18_Witness ==
    /\ call.at = "loop"
    /\ call.quality = 25
    /\ Len(call.log) = 13
    /\ call.log[13].quality = 30
    /\ call.log[1].quality = 90

----------------------------------------------------------------------------
(* Property of the thread-selection dialogue (SpecMain) *)

(* C19, as claimed: whatever thread count the machine reports (1 or more,  *)
(* or 4 when it reports none), the set of accepted options is not empty    *)
(* and holds a positive number, so some answer leaves the selection loop.  *)
C19_OptionsNonEmpty ==
    sel.at = "threads" =>
       /\ sel.cpu_threads >= 1
       /\ sel.thread_options # {}
       /\ \E v \in ThreadInputs : v > 0 /\ v \in sel.thread_options

====
